---- MODULE Spec2Model ----
(***************************************************************************)
(* Model of src/routes/converter.py: the /convert/<conversion_type> request *)
(* handler, its temporary files, and the json <-> csv converters.           *)
(*                                                                         *)
(* Text is a sequence of Unicode code points, a file's content a sequence   *)
(* of bytes.  The external converters (python-docx, Pillow, pytesseract)    *)
(* are black boxes: each either raises or returns, chosen by the            *)
(* environment.  The platform is POSIX (os.linesep is "\n", a file that is  *)
(* unlinked while open stays readable through its descriptor).  Saving the  *)
(* upload to its temporary file is taken to succeed.                        *)
(***************************************************************************)
EXTENDS Integers, Sequences, FiniteSets, TLC

VARIABLES
    reqNo,            \* number of requests received so far
    pc,               \* position of the current request in handle_conversion
    request,          \* conversion_type, request.files["file"], request.form
    file_ext,         \* local: lower-cased extension of the secured filename
    unique_id,        \* local: the first eight characters of a fresh uuid4
    temp_input,       \* local: path of the staged upload, NoPath before line 181
    output_file_path, \* local: path of the output artifact, NoPath while None
    output_filename,  \* local: download name, NoName while None
    mimetype,         \* local: media type, NoMime while None
    disk,             \* the temporary directory: path -> file content
    tmpCount,         \* number of names tempfile has handed out
    created,          \* paths created on behalf of the current request
    invoked,          \* converters called by the current request, in order
    raised,           \* what raised inside the try block: none, read,
                      \* converter, write or send
    response,         \* what the handler returned
    unlinkedOutput,   \* the handler has unlinked the output artifact
    bodyWritten,      \* the server has written the response body to the client
    unlinkMissing,    \* the handler called os.unlink on a path that is not there
    clientBody,       \* the body the client received for the current request
    sourceDoc         \* round trip: the JSON document the client started from

vars == <<reqNo, pc, request, file_ext, unique_id, temp_input, output_file_path,
          output_filename, mimetype, disk, tmpCount, created, invoked, raised,
          response, unlinkedOutput, bodyWritten, unlinkMissing, clientBody,
          sourceDoc>>

(***************************************************************************)
(* Bounds of the model.                                                    *)
(***************************************************************************)
MaxRequests == 2    \* requests served one after the other
MaxRecords == 2     \* records in a JSON array drawn for the round trip

(***************************************************************************)
(* Code points and bytes.                                                  *)
(***************************************************************************)
BOM == 65279        \* U+FEFF, written by json_to_csv
COMMA == 44         \* csv excel dialect: delimiter
QUOTE == 34         \* csv excel dialect: quotechar
CR == 13
LF == 10
EOL == 0            \* the reader's end-of-line marker, '\0'

\* The concatenation of the sequences ss[lo], ..., ss[hi].
RECURSIVE ConcatRange(_, _, _)
ConcatRange(ss, lo, hi) ==
    IF lo > hi THEN <<>>
    ELSE IF lo = hi THEN ss[lo]
    ELSE LET mid == (lo + hi) \div 2
         IN  ConcatRange(ss, lo, mid) \o ConcatRange(ss, mid + 1, hi)

Concat(ss) == ConcatRange(ss, 1, Len(ss))

Contains(s, c) == \E i \in 1..Len(s) : s[i] = c

\* str.encode("utf-8") of one code point.
Utf8Char(cp) ==
    IF cp < 128 THEN <<cp>>
    ELSE IF cp < 2048 THEN <<192 + (cp \div 64), 128 + (cp % 64)>>
    ELSE IF cp < 65536
    THEN <<224 + (cp \div 4096), 128 + ((cp \div 64) % 64), 128 + (cp % 64)>>
    ELSE <<240 + (cp \div 262144), 128 + ((cp \div 4096) % 64),
           128 + ((cp \div 64) % 64), 128 + (cp % 64)>>

Utf8Encode(text) == Concat([i \in 1..Len(text) |-> Utf8Char(text[i])])

IsCont(b) == b >= 128 /\ b < 192

\* bytes.decode("utf-8"): Undecodable stands for UnicodeDecodeError.
Undecodable == <<-1>>

\* The length a lead byte announces; 0 for a byte that cannot lead.
Utf8Width(b) ==
    IF b < 128 THEN 1
    ELSE IF b >= 194 /\ b < 224 THEN 2
    ELSE IF b >= 224 /\ b < 240 THEN 3
    ELSE IF b >= 240 /\ b < 245 THEN 4
    ELSE 0

\* Every byte that is no continuation byte starts a character.
Utf8Decode(bytes) ==
    LET n == Len(bytes)
        Starts == {i \in 1..n : ~IsCont(bytes[i])}
        Width(i) == Utf8Width(bytes[i])
        Cp(i) == IF Width(i) = 1 THEN bytes[i]
                 ELSE IF Width(i) = 2
                 THEN (bytes[i] - 192) * 64 + (bytes[i + 1] - 128)
                 ELSE IF Width(i) = 3
                 THEN (bytes[i] - 224) * 4096 + (bytes[i + 1] - 128) * 64
                      + (bytes[i + 2] - 128)
                 ELSE (bytes[i] - 240) * 262144 + (bytes[i + 1] - 128) * 4096
                      + (bytes[i + 2] - 128) * 64 + (bytes[i + 3] - 128)
        WellFormed(i) ==
            /\ Width(i) > 0
            /\ i + Width(i) - 1 <= n
            /\ \A j \in (i + 1)..(i + Width(i) - 1) : IsCont(bytes[j])
            /\ i + Width(i) <= n => ~IsCont(bytes[i + Width(i)])
            /\ Width(i) = 3 => Cp(i) >= 2048 /\ (Cp(i) < 55296 \/ Cp(i) > 57343)
            /\ Width(i) = 4 => Cp(i) >= 65536 /\ Cp(i) < 1114112
    IN  IF (n > 0 /\ IsCont(bytes[1])) \/ \E i \in Starts : ~WellFormed(i)
        THEN Undecodable
        ELSE Concat([i \in 1..n |-> IF i \in Starts THEN <<Cp(i)>> ELSE <<>>])

\* Text-mode read with newline=None: "\r\n" and "\r" become "\n".
UniversalNewlines(text) ==
    Concat([i \in 1..Len(text) |->
              IF text[i] = CR THEN <<LF>>
              ELSE IF text[i] = LF /\ i > 1 /\ text[i - 1] = CR THEN <<>>
              ELSE <<text[i]>>])

\* open(path, "r", encoding="utf-8").read()
ReadText(bytes) ==
    LET t == Utf8Decode(bytes)
    IN  IF t = Undecodable THEN Undecodable ELSE UniversalNewlines(t)

\* open(path, "w", encoding="utf-8") ... f.write(text); "\n" stays "\n".
WriteText(text) == Utf8Encode(text)

(***************************************************************************)
(* JSON values, as json.loads returns them.                                *)
(***************************************************************************)
JStr(s) == [t |-> "str", s |-> s]
JInt(n) == [t |-> "int", n |-> n]
JNull == [t |-> "null"]
JObj(o) == [t |-> "obj", o |-> o]          \* o: function from keys to values
JList(items) == [t |-> "list", items |-> items]
JInvalid == [t |-> "invalid"]               \* json.loads raises

\* str(n) for a natural number.
RECURSIVE Digits(_)
Digits(n) == IF n < 10 THEN <<48 + n>> ELSE Digits(n \div 10) \o <<48 + (n % 10)>>

\* The order of Python's str comparison: lexicographic by code point.
RECURSIVE LexLess(_, _)
LexLess(a, b) ==
    IF b = <<>> THEN FALSE
    ELSE IF a = <<>> THEN TRUE
    ELSE IF a[1] # b[1] THEN a[1] < b[1]
    ELSE LexLess(Tail(a), Tail(b))

\* sorted(list(fieldnames))
RECURSIVE Sorted(_)
Sorted(S) ==
    IF S = {} THEN <<>>
    ELSE LET m == CHOOSE k \in S : \A j \in S : j = k \/ LexLess(k, j)
         IN  <<m>> \o Sorted(S \ {m})

(***************************************************************************)
(* csv.writer, excel dialect: QUOTE_MINIMAL, doublequote, "\r\n".           *)
(***************************************************************************)
DoubleQuotes(s) ==
    Concat([i \in 1..Len(s) |-> IF s[i] = QUOTE THEN <<QUOTE, QUOTE>> ELSE <<s[i]>>])

NeedsQuote(s) ==
    Contains(s, COMMA) \/ Contains(s, QUOTE) \/ Contains(s, CR) \/ Contains(s, LF)

WriteField(s) ==
    IF NeedsQuote(s) THEN <<QUOTE>> \o DoubleQuotes(s) \o <<QUOTE>> ELSE s

JoinFields(fields) ==
    Concat([i \in 1..Len(fields) |->
              (IF i > 1 THEN <<COMMA>> ELSE <<>>) \o WriteField(fields[i])])

\* writer.writerow: a record made of a single empty field is written as "".
WriteRow(fields) ==
    LET rec == JoinFields(fields)
    IN  (IF Len(fields) > 0 /\ rec = <<>> THEN <<QUOTE, QUOTE>> ELSE rec)
        \o <<CR, LF>>

\* What the writer makes of a cell: None is "", anything else str(value).
CellText(v) ==
    IF v.t = "str" THEN v.s
    ELSE IF v.t = "int" THEN Digits(v.n)
    ELSE <<>>

(***************************************************************************)
(* json_to_csv (lines 42-79).  Raised stands for the ValueError.           *)
(***************************************************************************)
Raised == [ok |-> FALSE]
Returned(v) == [ok |-> TRUE, value |-> v]

WithBom(text) == <<BOM>> \o text

FieldNames(data) ==
    Sorted(UNION {DOMAIN data[i].o : i \in {j \in 1..Len(data) : data[j].t = "obj"}})

RowOf(item, fieldnames) ==
    [i \in 1..Len(fieldnames) |->
        IF fieldnames[i] \in DOMAIN item.o THEN CellText(item.o[fieldnames[i]])
        ELSE <<>>]

WriteRows(data, fieldnames) ==
    Concat([i \in 1..Len(data) |->
              IF data[i].t = "obj" THEN WriteRow(RowOf(data[i], fieldnames))
              ELSE <<>>])

\* Lines 59-76: the header and one row per object.
CsvOf(data) ==
    LET fieldnames == FieldNames(data)
    IN  WithBom(WriteRow(fieldnames) \o WriteRows(data, fieldnames))

\* json_to_csv with lines 50-51 left out: a single object is not wrapped in a
\* list and is refused like a scalar.  C8 must tell the two apart.
json_to_csv_unwrapped(loaded) ==
    IF loaded.t # "list" THEN Raised
    ELSE IF loaded.items = <<>> THEN Returned(<<>>)
    ELSE Returned(CsvOf(loaded.items))

json_to_csv(loaded) ==
    IF loaded.t = "invalid" THEN Raised
    ELSE LET data == IF loaded.t = "obj" THEN <<loaded>>
                     ELSE IF loaded.t = "list" THEN loaded.items
                     ELSE <<>>
         IN  IF loaded.t \notin {"obj", "list"} THEN Raised
             ELSE IF data = <<>> THEN Returned(<<>>)
             ELSE Returned(CsvOf(data))

(***************************************************************************)
(* csv.reader, excel dialect, over io.StringIO(csv_data): the lines end at *)
(* "\n", and the reader sees EOL after each line.                          *)
(***************************************************************************)
WithEol(text) ==
    Concat([i \in 1..Len(text) |->
              IF text[i] = LF THEN <<LF, EOL>>
              ELSE IF i = Len(text) THEN <<text[i], EOL>>
              ELSE <<text[i]>>])

IsBreak(c) == c = LF \/ c = CR \/ c = EOL

\* The reader between two characters.  ok turns FALSE on csv.Error.
Reader(state, field, row, rows, ok) ==
    [state |-> state, field |-> field, row |-> row, rows |-> rows, ok |-> ok]

\* A line break closes the field; EOL also closes the record.
SaveField(r, c) ==
    IF c = EOL
    THEN Reader("START_RECORD", <<>>, <<>>, Append(r.rows, Append(r.row, r.field)), TRUE)
    ELSE Reader("EAT_CRNL", <<>>, Append(r.row, r.field), r.rows, TRUE)

\* parse_process_char
ProcessChar(r, c) ==
    LET st == IF r.state = "START_RECORD" /\ ~IsBreak(c) THEN "START_FIELD"
              ELSE r.state
    IN  IF ~r.ok THEN r
        ELSE CASE st = "START_RECORD" ->
                    IF c = EOL
                    THEN Reader("START_RECORD", <<>>, <<>>, Append(r.rows, r.row), TRUE)
                    ELSE Reader("EAT_CRNL", r.field, r.row, r.rows, TRUE)
               [] st = "START_FIELD" ->
                    IF IsBreak(c) THEN SaveField(Reader(st, <<>>, r.row, r.rows, TRUE), c)
                    ELSE IF c = QUOTE
                    THEN Reader("IN_QUOTED_FIELD", r.field, r.row, r.rows, TRUE)
                    ELSE IF c = COMMA
                    THEN Reader("START_FIELD", <<>>, Append(r.row, <<>>), r.rows, TRUE)
                    ELSE Reader("IN_FIELD", <<c>>, r.row, r.rows, TRUE)
               [] st = "IN_FIELD" ->
                    IF IsBreak(c) THEN SaveField(r, c)
                    ELSE IF c = COMMA
                    THEN Reader("START_FIELD", <<>>, Append(r.row, r.field), r.rows, TRUE)
                    ELSE Reader("IN_FIELD", Append(r.field, c), r.row, r.rows, TRUE)
               [] st = "IN_QUOTED_FIELD" ->
                    IF c = EOL THEN r
                    ELSE IF c = QUOTE
                    THEN Reader("QUOTE_IN_QUOTED_FIELD", r.field, r.row, r.rows, TRUE)
                    ELSE Reader(st, Append(r.field, c), r.row, r.rows, TRUE)
               [] st = "QUOTE_IN_QUOTED_FIELD" ->
                    IF c = QUOTE
                    THEN Reader("IN_QUOTED_FIELD", Append(r.field, c), r.row, r.rows, TRUE)
                    ELSE IF c = COMMA
                    THEN Reader("START_FIELD", <<>>, Append(r.row, r.field), r.rows, TRUE)
                    ELSE IF IsBreak(c) THEN SaveField(r, c)
                    ELSE Reader("IN_FIELD", Append(r.field, c), r.row, r.rows, TRUE)
               [] OTHER ->   \* EAT_CRNL
                    IF c = LF \/ c = CR THEN r
                    ELSE IF c = EOL
                    THEN Reader("START_RECORD", <<>>, <<>>, Append(r.rows, r.row), TRUE)
                    ELSE Reader(st, r.field, r.row, r.rows, FALSE)

\* The reader after stream[lo..hi], started in r.
RECURSIVE ParseRange(_, _, _, _)
ParseRange(stream, lo, hi, r) ==
    IF lo > hi THEN r
    ELSE IF lo = hi THEN ProcessChar(r, stream[lo])
    ELSE LET mid == (lo + hi) \div 2
             left == ParseRange(stream, lo, mid, r)
         IN  IF left.ok THEN ParseRange(stream, mid + 1, hi, left) ELSE left

\* All rows of the input; at its end an open quoted field closes the record.
ParseCsv(stream) ==
    LET r == ParseRange(stream, 1, Len(stream), Reader("START_RECORD", <<>>, <<>>, <<>>, TRUE))
    IN  IF ~r.ok THEN Raised
        ELSE IF r.state = "IN_QUOTED_FIELD"
        THEN Returned(Append(r.rows, Append(r.row, r.field)))
        ELSE Returned(r.rows)

CsvReader(text) == ParseCsv(WithEol(text))

(***************************************************************************)
(* csv.DictReader: the first row names the fields; empty rows are skipped; *)
(* a short row is filled with None, the surplus of a long row goes under   *)
(* the key None, which json.dumps writes as "null".                        *)
(***************************************************************************)
NullKey == <<110, 117, 108, 108>>

NonEmptyRows(rows) == SelectSeq(rows, LAMBDA r : r # <<>>)

DictRow(fieldnames, row) ==
    LET lf == Len(fieldnames)
        lr == Len(row)
        keys == {fieldnames[i] : i \in 1..lf} \cup (IF lf < lr THEN {NullKey} ELSE {})
        Last(k) == CHOOSE i \in 1..lf : fieldnames[i] = k
                       /\ \A j \in 1..lf : fieldnames[j] = k => j <= i
    IN  [k \in keys |->
            IF lf < lr /\ k = NullKey
            THEN JList([i \in 1..(lr - lf) |-> JStr(row[lf + i])])
            ELSE IF Last(k) > lr THEN JNull
            ELSE JStr(row[Last(k)])]

\* csv_to_json (lines 81-89): the parsed value of the JSON text it returns.
csv_to_json(csv_data) ==
    LET parsed == CsvReader(csv_data)
    IN  IF ~parsed.ok THEN Raised
        ELSE IF parsed.value = <<>> THEN Returned(JList(<<>>))
        ELSE LET fieldnames == Head(parsed.value)
                 data == NonEmptyRows(Tail(parsed.value))
             IN  Returned(JList([i \in 1..Len(data) |->
                                    JObj(DictRow(fieldnames, data[i]))]))

(***************************************************************************)
(* The request handler: files, names, requests and responses.              *)
(***************************************************************************)
\* File contents.  An upload is bytes together with what json.loads makes of
\* its text (JInvalid when it raises); the JSON text csv_to_json writes is
\* kept as the value it denotes; what an external converter writes is opaque.
BytesFile(b, j) == [kind |-> "bytes", bytes |-> b, json |-> j]
JsonFile(doc) == [kind |-> "json", doc |-> doc]
Opaque(fmt, size) == [kind |-> "opaque", fmt |-> fmt, size |-> size]
EmptyFile == BytesFile(<<>>, JInvalid)
NoContent == [kind |-> "none"]

IsEmptyFile(c) ==
    CASE c.kind = "bytes" -> c.bytes = <<>>
      [] c.kind = "opaque" -> c.size = 0
      [] OTHER -> FALSE

\* open(temp_input.name, "r", encoding="utf-8").read()
ReadContent(c) == IF c.kind = "bytes" THEN ReadText(c.bytes) ELSE Undecodable

\* json.loads, inside json_to_csv, of the text just read.
JsonLoads(c) == IF c.kind = "bytes" THEN c.json ELSE JInvalid

\* Names handed out by tempfile.NamedTemporaryFile(delete=False, suffix=...).
Path(n, suffix) == [n |-> n, suffix |-> suffix]
NoPath == Path(0, "")

Name(stem, dot, suffix) == [stem |-> stem, dot |-> dot, suffix |-> suffix]
EmptyName == Name("", FALSE, "")
DownloadName(id, ext) == [id |-> id, ext |-> ext]
NoName == DownloadName(0, "")
Mime(type, subtype) == [type |-> type, subtype |-> subtype]
NoMime == Mime("", "")

Put(d, p, c) == [q \in DOMAIN d \cup {p} |-> IF q = p THEN c ELSE d[q]]
Unlink(d, p) == [q \in DOMAIN d \ {p} |-> d[q]]

\* str.lower() on the extensions and formats of the model.
Lower(x) ==
    CASE x = "JPG" -> "jpg"
      [] x = "JSON" -> "json"
      [] x = "JPEG" -> "jpeg"
      [] OTHER -> x

\* ALLOWED_EXTENSIONS["image"]
ImageExtensions == {"jpg", "jpeg", "png", "heic", "webp", "avif"}

\* filename.rsplit(".", 1)[1].lower() if "." in filename else ""
FileExt(filename) == IF filename.dot THEN Lower(filename.suffix) ELSE ""

\* MissingUpload with the check of lines 172-173 left out.  C7 must tell the
\* two apart.
MissingUploadUnnamed(req) == ~req.hasFile

\* Lines 168-173: no "file" part, or a part with an empty filename.
MissingUpload(req) == ~req.hasFile \/ req.filename = EmptyName

\* request.form.get("target_format", "png").lower()
TargetFormat(req) ==
    Lower(IF req.target_format = "absent" THEN "png" ELSE req.target_format)

NoResponse ==
    [status |-> 0, kind |-> "none", error |-> "", file |-> NoContent,
     download_name |-> NoName, mimetype |-> NoMime]
ErrorResponse(status, message) ==
    [status |-> status, kind |-> "json", error |-> message, file |-> NoContent,
     download_name |-> NoName, mimetype |-> NoMime]
\* send_file opens the artifact; the body is read from that descriptor later.
FileResponse(content, name, mime) ==
    [status |-> 200, kind |-> "file", error |-> "", file |-> content,
     download_name |-> name, mimetype |-> mime]

\* ExceptResponse with the status left out of line 259.  C5 must tell the two
\* apart.
ExceptResponseNoStatus == ErrorResponse(200, "conversion failed")

\* Line 259.
ExceptResponse == ErrorResponse(500, "conversion failed")
\* Line 256.
UnsupportedResponse == ErrorResponse(400, "unsupported conversion type or file format")

\* The if/elif chain of lines 189-249.
\* RoutesJsonToCsv with the two directions confused.  C10 must tell the two
\* apart.
RoutesJsonToCsvSwapped(token, ext) == token = "json-csv" /\ ext = "csv"
\* RoutesCsvToJson with else in place of elif file_ext == "csv".  C6 must tell
\* the two apart.
RoutesCsvToJsonElse(token, ext) == token = "json-csv" /\ ext # "json"

RoutesJsonToCsv(token, ext) == token = "json-csv" /\ ext = "json"
RoutesCsvToJson(token, ext) == token = "json-csv" /\ ext = "csv"
RoutesMarkdownToDocx(token, ext) == token = "markdown-docx" /\ ext \in {"md", "markdown"}
RoutesDocxToMarkdown(token, ext) == token = "markdown-docx" /\ ext = "docx"
RoutesImageFormat(token, ext) == token = "image-format"
RoutesImageToText(token, ext) ==
    token = "image-to-text-ocr" /\ ext \in ImageExtensions
RoutesImageToPdf(token, ext) ==
    token = "image-to-searchable-pdf-ocr" /\ ext \in ImageExtensions
RejectsOcrInput(token, ext) ==
    token \in {"image-to-text-ocr", "image-to-searchable-pdf-ocr"}
    /\ ext \notin ImageExtensions

(***************************************************************************)
(* The requests of the model.                                              *)
(***************************************************************************)
\* json.dumps(value, ensure_ascii=False, sort_keys=True): a JSON text of value.
Escaped(s) ==
    Concat([i \in 1..Len(s) |->
              CASE s[i] = QUOTE -> <<92, QUOTE>>
                [] s[i] = 92 -> <<92, 92>>
                [] s[i] = LF -> <<92, 110>>
                [] s[i] = CR -> <<92, 114>>
                [] OTHER -> <<s[i]>>])

RECURSIVE JsonText(_)
JsonText(v) ==
    LET Members(keys) ==
            [i \in 1..Len(keys) |->
                (IF i > 1 THEN <<COMMA, 32>> ELSE <<>>)
                \o <<QUOTE>> \o Escaped(keys[i]) \o <<QUOTE, 58, 32>>
                \o JsonText(v.o[keys[i]])]
        Items == [i \in 1..Len(v.items) |->
                    (IF i > 1 THEN <<COMMA, 32>> ELSE <<>>) \o JsonText(v.items[i])]
    IN  CASE v.t = "str" -> <<QUOTE>> \o Escaped(v.s) \o <<QUOTE>>
          [] v.t = "int" -> Digits(v.n)
          [] v.t = "null" -> NullKey
          [] v.t = "obj" -> <<123>> \o Concat(Members(Sorted(DOMAIN v.o))) \o <<125>>
          [] OTHER -> <<91>> \o Concat(Items) \o <<93>>

JsonUpload(doc) == BytesFile(Utf8Encode(JsonText(doc)), doc)
\* A text that is no JSON document.
TextUpload(text) == BytesFile(Utf8Encode(text), JInvalid)
\* An image, a .docx: bytes that are no UTF-8 text.
Binary == Opaque("binary", 1)

KeyA == <<97>>
KeyB == <<98>>

HandlerUploads ==
    { JsonUpload(JInt(5)),
      JsonUpload(JList(<<>>)),
      JsonUpload(JObj(KeyA :> JStr(<<120>>))),
      JsonUpload(JList(<<JObj(KeyA :> JInt(1)), JInt(5), JObj(KeyB :> JNull)>>)),
      TextUpload(<<97, COMMA, 98, LF, 49, COMMA, 50>>),
      TextUpload(<<>>),
      Binary }

Tokens ==
    { "json-csv", "markdown-docx", "image-format", "image-to-text-ocr",
      "image-to-searchable-pdf-ocr", "video-gif" }

Filenames ==
    { Name("data", TRUE, "json"), Name("data", TRUE, "csv"),
      Name("notes", TRUE, "md"), Name("notes", TRUE, "markdown"),
      Name("report", TRUE, "docx"), Name("photo", TRUE, "png"),
      Name("photo", TRUE, "JPG"), Name("notes", TRUE, "txt"),
      Name("README", FALSE, "") }

TargetFormats == {"absent", "JPEG"}

Request(token, hasFile, filename, content, target) ==
    [conversion_type |-> token, hasFile |-> hasFile, filename |-> filename,
     content |-> content, target_format |-> target]

NoRequest == Request("", FALSE, EmptyName, NoContent, "absent")

\* The handler reads the upload's content under json-csv and markdown-docx
\* only, and the form under image-format only: elsewhere one content and an
\* absent target_format stand for all.
UploadsFor(token) ==
    CASE token = "json-csv" -> HandlerUploads
      [] token = "markdown-docx" -> {TextUpload(<<35, 32, 97>>), Binary}
      [] OTHER -> {Binary}

TargetsFor(token) == IF token = "image-format" THEN TargetFormats ELSE {"absent"}

Requests ==
    UNION { { Request(t, FALSE, EmptyName, NoContent, f) : f \in TargetsFor(t) }
            \cup { Request(t, TRUE, EmptyName, EmptyFile, f) : f \in TargetsFor(t) }
            \cup { Request(t, TRUE, n, c, f) :
                     n \in Filenames, c \in UploadsFor(t), f \in TargetsFor(t) }
            : t \in Tokens }

(***************************************************************************)
(* handle_conversion, step by step.                                        *)
(***************************************************************************)
Init ==
    /\ reqNo = 0
    /\ pc = "idle"
    /\ request = NoRequest
    /\ file_ext = ""
    /\ unique_id = 0
    /\ temp_input = NoPath
    /\ output_file_path = NoPath
    /\ output_filename = NoName
    /\ mimetype = NoMime
    /\ disk = <<>>
    /\ tmpCount = 0
    /\ created = {}
    /\ invoked = <<>>
    /\ raised = "none"
    /\ response = NoResponse
    /\ unlinkedOutput = FALSE
    /\ bodyWritten = FALSE
    /\ unlinkMissing = FALSE
    /\ clientBody = NoContent
    /\ sourceDoc = JInvalid

\* A request arrives; the handler's locals are fresh.
Arrive(req) ==
    /\ pc = "idle"
    /\ reqNo < MaxRequests
    /\ reqNo' = reqNo + 1
    /\ request' = req
    /\ pc' = "received"
    /\ file_ext' = ""
    /\ unique_id' = 0
    /\ temp_input' = NoPath
    /\ output_file_path' = NoPath
    /\ output_filename' = NoName
    /\ mimetype' = NoMime
    /\ created' = {}
    /\ invoked' = <<>>
    /\ raised' = "none"
    /\ response' = NoResponse
    /\ unlinkedOutput' = FALSE
    /\ bodyWritten' = FALSE
    /\ unlinkMissing' = FALSE
    /\ clientBody' = NoContent
    /\ UNCHANGED <<disk, tmpCount>>

Receive == \E req \in Requests : Arrive(req) /\ UNCHANGED sourceDoc

\* Lines 168-173.
Validate ==
    /\ pc = "received"
    /\ IF MissingUpload(request)
       THEN /\ response' = ErrorResponse(400, IF request.hasFile
                                               THEN "no file selected"
                                               ELSE "no file uploaded")
            /\ pc' = "returned"
       ELSE /\ pc' = "validated"
            /\ UNCHANGED response
    /\ UNCHANGED <<reqNo, request, file_ext, unique_id, temp_input,
                   output_file_path, output_filename, mimetype, disk, tmpCount,
                   created, invoked, raised, unlinkedOutput, bodyWritten,
                   unlinkMissing, clientBody, sourceDoc>>

\* Lines 176-187.
Stage ==
    /\ pc = "validated"
    /\ LET ext == FileExt(request.filename)
           p == Path(tmpCount + 1, ext)
       IN  /\ file_ext' = ext
           /\ unique_id' = reqNo
           /\ temp_input' = p
           /\ disk' = Put(disk, p, request.content)
           /\ created' = {p}
    /\ tmpCount' = tmpCount + 1
    /\ pc' = "staged"
    /\ UNCHANGED <<reqNo, request, output_file_path, output_filename, mimetype,
                   invoked, raised, response, unlinkedOutput, bodyWritten,
                   unlinkMissing, clientBody, sourceDoc>>

(***************************************************************************)
(* Lines 189-249: the conversion branches.  Each branch ends in one of     *)
(* three ways: the output artifact is there and the three locals are set;  *)
(* something raised before any output file existed; something raised after *)
(* tempfile had created the output file.                                   *)
(***************************************************************************)
DispatchFrame ==
    <<reqNo, request, file_ext, unique_id, temp_input, response, unlinkedOutput,
      bodyWritten, unlinkMissing, clientBody, sourceDoc>>

Produced(convs, path, content, name, mime) ==
    /\ invoked' = invoked \o convs
    /\ disk' = Put(disk, path, content)
    /\ created' = created \cup {path}
    /\ tmpCount' = tmpCount + 1
    /\ output_file_path' = path
    /\ output_filename' = name
    /\ mimetype' = mime
    /\ raised' = "none"
    /\ pc' = "dispatched"

RaisesClean(kind, convs) ==
    /\ invoked' = invoked \o convs
    /\ raised' = kind
    /\ pc' = "except"
    /\ UNCHANGED <<disk, created, tmpCount, output_file_path, output_filename,
                   mimetype>>

\* local is the path as far as the handler's output_file_path holds it.
RaisesAfterCreate(kind, convs, path, content, local) ==
    /\ invoked' = invoked \o convs
    /\ disk' = Put(disk, path, content)
    /\ created' = created \cup {path}
    /\ tmpCount' = tmpCount + 1
    /\ output_file_path' = local
    /\ raised' = kind
    /\ pc' = "except"
    /\ UNCHANGED <<output_filename, mimetype>>

\* Lines 190-197.
ConvertJsonToCsv ==
    /\ pc = "staged"
    /\ RoutesJsonToCsv(request.conversion_type, file_ext)
    /\ LET content == disk[temp_input]
           result == json_to_csv(JsonLoads(content))
           out == Path(tmpCount + 1, "csv")
       IN  IF ReadContent(content) = Undecodable THEN RaisesClean("read", <<>>)
           ELSE IF ~result.ok THEN RaisesClean("converter", <<"json_to_csv">>)
           ELSE \/ Produced(<<"json_to_csv">>, out,
                            BytesFile(WriteText(result.value), JInvalid),
                            DownloadName(unique_id, "csv"), Mime("text", "csv"))
                \/ RaisesAfterCreate("write", <<"json_to_csv">>, out, EmptyFile, out)
    /\ UNCHANGED DispatchFrame

\* Lines 198-205.
ConvertCsvToJson ==
    /\ pc = "staged"
    /\ RoutesCsvToJson(request.conversion_type, file_ext)
    /\ LET text == ReadContent(disk[temp_input])
           result == csv_to_json(text)
           out == Path(tmpCount + 1, "json")
       IN  IF text = Undecodable THEN RaisesClean("read", <<>>)
           ELSE IF ~result.ok THEN RaisesClean("converter", <<"csv_to_json">>)
           ELSE \/ Produced(<<"csv_to_json">>, out, JsonFile(result.value),
                            DownloadName(unique_id, "json"),
                            Mime("application", "json"))
                \/ RaisesAfterCreate("write", <<"csv_to_json">>, out, EmptyFile, out)
    /\ UNCHANGED DispatchFrame

\* Lines 208-212; markdown_to_docx (lines 91-108) creates the file itself and
\* raises before that (markdown2) or after it (doc.save).
ConvertMarkdownToDocx ==
    /\ pc = "staged"
    /\ RoutesMarkdownToDocx(request.conversion_type, file_ext)
    /\ LET out == Path(tmpCount + 1, "docx")
       IN  IF ReadContent(disk[temp_input]) = Undecodable
           THEN RaisesClean("read", <<>>)
           ELSE \/ Produced(<<"markdown_to_docx">>, out, Opaque("docx", 1),
                            DownloadName(unique_id, "docx"),
                            Mime("application",
                                 "vnd.openxmlformats-officedocument.wordprocessingml.document"))
                \/ RaisesClean("converter", <<"markdown_to_docx">>)
                \/ RaisesAfterCreate("converter", <<"markdown_to_docx">>, out,
                                     Opaque("docx", 0), NoPath)
    /\ UNCHANGED DispatchFrame

\* Lines 213-219; docx_to_markdown (lines 110-117) returns text, empty when the
\* document has no paragraph text.
ConvertDocxToMarkdown ==
    /\ pc = "staged"
    /\ RoutesDocxToMarkdown(request.conversion_type, file_ext)
    /\ LET out == Path(tmpCount + 1, "md")
       IN  \/ \E size \in {0, 1} :
                 Produced(<<"docx_to_markdown">>, out, Opaque("md", size),
                          DownloadName(unique_id, "md"), Mime("text", "markdown"))
           \/ RaisesClean("converter", <<"docx_to_markdown">>)
           \/ RaisesAfterCreate("write", <<"docx_to_markdown">>, out, EmptyFile, out)
    /\ UNCHANGED DispatchFrame

\* Lines 221-225; convert_image_format (lines 119-133) raises in Image.open,
\* before the file exists, or in img.save, after line 128 created it.
ConvertImageFormat ==
    /\ pc = "staged"
    /\ RoutesImageFormat(request.conversion_type, file_ext)
    /\ LET target_format == TargetFormat(request)
           out == Path(tmpCount + 1, target_format)
       IN  \/ Produced(<<"convert_image_format">>, out, Opaque(target_format, 1),
                       DownloadName(unique_id, target_format),
                       Mime("image", target_format))
           \/ RaisesClean("converter", <<"convert_image_format">>)
           \/ RaisesAfterCreate("converter", <<"convert_image_format">>, out,
                                Opaque(target_format, 0), NoPath)
    /\ UNCHANGED DispatchFrame

\* Lines 232-239; image_to_text_ocr (lines 147-153) returns the text found.
ConvertImageToText ==
    /\ pc = "staged"
    /\ RoutesImageToText(request.conversion_type, file_ext)
    /\ LET out == Path(tmpCount + 1, "txt")
       IN  \/ \E size \in {0, 1} :
                 Produced(<<"image_to_text_ocr">>, out, Opaque("txt", size),
                          DownloadName(unique_id, "txt"), Mime("text", "plain"))
           \/ RaisesClean("converter", <<"image_to_text_ocr">>)
           \/ RaisesAfterCreate("write", <<"image_to_text_ocr">>, out, EmptyFile, out)
    /\ UNCHANGED DispatchFrame

\* Lines 243-247; image_to_searchable_pdf_ocr (lines 155-164) raises in
\* pytesseract, before the file exists, or in temp_file.write, after it.
ConvertImageToPdf ==
    /\ pc = "staged"
    /\ RoutesImageToPdf(request.conversion_type, file_ext)
    /\ LET out == Path(tmpCount + 1, "pdf")
       IN  \/ Produced(<<"image_to_searchable_pdf_ocr">>, out, Opaque("pdf", 1),
                       DownloadName(unique_id, "pdf"), Mime("application", "pdf"))
           \/ RaisesClean("converter", <<"image_to_searchable_pdf_ocr">>)
           \/ RaisesAfterCreate("converter", <<"image_to_searchable_pdf_ocr">>, out,
                                Opaque("pdf", 0), NoPath)
    /\ UNCHANGED DispatchFrame

\* Lines 240-241 and 248-249: return 400 from inside the try block.
RejectOcrInput ==
    /\ pc = "staged"
    /\ RejectsOcrInput(request.conversion_type, file_ext)
    /\ response' = ErrorResponse(400, "unsupported image format")
    /\ pc' = "finally"
    /\ UNCHANGED <<reqNo, request, file_ext, unique_id, temp_input,
                   output_file_path, output_filename, mimetype, disk, tmpCount,
                   created, invoked, raised, unlinkedOutput, bodyWritten,
                   unlinkMissing, clientBody, sourceDoc>>

Routed(token, ext) ==
    \/ RoutesJsonToCsv(token, ext)
    \/ RoutesCsvToJson(token, ext)
    \/ RoutesMarkdownToDocx(token, ext)
    \/ RoutesDocxToMarkdown(token, ext)
    \/ RoutesImageFormat(token, ext)
    \/ RoutesImageToText(token, ext)
    \/ RoutesImageToPdf(token, ext)
    \/ RejectsOcrInput(token, ext)

\* No branch assigns the three locals: an unknown token, or a two-way token
\* with an extension of neither side.
NoConversion ==
    /\ pc = "staged"
    /\ ~Routed(request.conversion_type, file_ext)
    /\ pc' = "dispatched"
    /\ UNCHANGED <<reqNo, request, file_ext, unique_id, temp_input,
                   output_file_path, output_filename, mimetype, disk, tmpCount,
                   created, invoked, raised, response, unlinkedOutput,
                   bodyWritten, unlinkMissing, clientBody, sourceDoc>>

\* Lines 251-256.  send_file opens the artifact, os.unlink removes its name,
\* and the response object goes back to the server, which writes the body
\* after the handler has returned.
Send ==
    /\ pc = "dispatched"
    /\ IF output_file_path # NoPath /\ output_filename # NoName /\ mimetype # NoMime
       THEN \/ /\ response' = FileResponse(disk[output_file_path], output_filename,
                                           mimetype)
               /\ disk' = Unlink(disk, output_file_path)
               /\ unlinkedOutput' = TRUE
               /\ pc' = "finally"
               /\ UNCHANGED raised
            \/ /\ raised' = "send"
               /\ pc' = "except"
               /\ UNCHANGED <<response, disk, unlinkedOutput>>
       ELSE /\ response' = UnsupportedResponse
            /\ pc' = "finally"
            /\ UNCHANGED <<raised, disk, unlinkedOutput>>
    /\ UNCHANGED <<reqNo, request, file_ext, unique_id, temp_input,
                   output_file_path, output_filename, mimetype, tmpCount, created,
                   invoked, bodyWritten, unlinkMissing, clientBody, sourceDoc>>

\* Lines 258-259.
Except ==
    /\ pc = "except"
    /\ response' = ExceptResponse
    /\ pc' = "finally"
    /\ UNCHANGED <<reqNo, request, file_ext, unique_id, temp_input,
                   output_file_path, output_filename, mimetype, disk, tmpCount,
                   created, invoked, raised, unlinkedOutput, bodyWritten,
                   unlinkMissing, clientBody, sourceDoc>>

\* InputToUnlink with the cleanup done in the except clause only.  C3 must
\* tell the two apart.
InputToUnlinkOnError(d, p) ==
    IF raised # "none" /\ p # NoPath /\ p \in DOMAIN d THEN {p} ELSE {}

\* Lines 260-262: the guard, then os.unlink(temp_input.name).
InputToUnlink(d, p) == IF p # NoPath /\ p \in DOMAIN d THEN {p} ELSE {}

Finally ==
    /\ pc = "finally"
    /\ LET gone == InputToUnlink(disk, temp_input)
       IN  /\ disk' = [q \in DOMAIN disk \ gone |-> disk[q]]
           /\ unlinkMissing' = (unlinkMissing \/ \E p \in gone : p \notin DOMAIN disk)
    /\ pc' = "returned"
    /\ UNCHANGED <<reqNo, request, file_ext, unique_id, temp_input,
                   output_file_path, output_filename, mimetype, tmpCount, created,
                   invoked, raised, response, unlinkedOutput, bodyWritten,
                   clientBody, sourceDoc>>

\* The server writes the response to the client: a file body is read from the
\* descriptor send_file opened, an error body is the JSON object.
Transmit ==
    /\ pc = "returned"
    /\ clientBody' = IF response.kind = "file" THEN response.file
                     ELSE [kind |-> "error", error |-> response.error]
    /\ bodyWritten' = TRUE
    /\ pc' = "idle"
    /\ UNCHANGED <<reqNo, request, file_ext, unique_id, temp_input,
                   output_file_path, output_filename, mimetype, disk, tmpCount,
                   created, invoked, raised, response, unlinkedOutput,
                   unlinkMissing, sourceDoc>>

Next ==
    \/ Receive
    \/ Validate
    \/ Stage
    \/ ConvertJsonToCsv
    \/ ConvertCsvToJson
    \/ ConvertMarkdownToDocx
    \/ ConvertDocxToMarkdown
    \/ ConvertImageFormat
    \/ ConvertImageToText
    \/ ConvertImageToPdf
    \/ RejectOcrInput
    \/ NoConversion
    \/ Send
    \/ Except
    \/ Finally
    \/ Transmit

Spec == Init /\ [][Next]_vars

(***************************************************************************)
(* The round trip through json-csv: the client uploads a JSON array of     *)
(* objects as data.json, then uploads the body it received as data.csv.    *)
(***************************************************************************)
RoundTripValues == {<<>>, <<120>>, <<97, COMMA, 98>>, <<QUOTE>>}

\* Objects with at least one key and string values.
RoundTripObjects ==
    { JObj(o) : o \in UNION { [K -> {JStr(v) : v \in RoundTripValues}] :
                               K \in SUBSET {KeyA, KeyB} \ {{}} } }

RoundTripDocs ==
    { JList(items) : items \in UNION { [1..n -> RoundTripObjects] : n \in 0..MaxRecords } }

ReceiveJson ==
    /\ reqNo = 0
    /\ \E doc \in RoundTripDocs :
          /\ Arrive(Request("json-csv", TRUE, Name("data", TRUE, "json"),
                            JsonUpload(doc), "absent"))
          /\ sourceDoc' = doc

ReceiveCsvBack ==
    /\ reqNo = 1
    /\ response.status = 200
    /\ Arrive(Request("json-csv", TRUE, Name("data", TRUE, "csv"), clientBody,
                      "absent"))
    /\ UNCHANGED sourceDoc

NextRoundTrip ==
    \/ ReceiveJson
    \/ ReceiveCsvBack
    \/ Validate
    \/ Stage
    \/ ConvertJsonToCsv
    \/ ConvertCsvToJson
    \/ Send
    \/ Except
    \/ Finally
    \/ Transmit

SpecRoundTrip == Init /\ [][NextRoundTrip]_vars

(***************************************************************************)
(* Properties.                                                             *)
(***************************************************************************)
\* The handler has returned for the current request.
HandlerReturned == pc = "returned" \/ (pc = "idle" /\ reqNo > 0)

\* The request got past lines 168-173.
Uploaded == request.hasFile /\ request.filename # EmptyName

Ext == FileExt(request.filename)

\* C1: when the handler has returned, no temporary file created for the
\* request (staged input, output artifact) is left in the temporary directory.
C1_NoTempFileLeft ==
    HandlerReturned => \A p \in created : p \notin DOMAIN disk

\* C2: the output artifact is unlinked only after the response body has been
\* written to the client.
C2_UnlinkAfterBodyWritten == unlinkedOutput => bodyWritten

\* C3: once the upload is staged, the staged input is gone when the handler
\* has returned, whatever the way out, and the handler never unlinks a path
\* that is not there.
C3_InputReleased ==
    /\ HandlerReturned /\ temp_input # NoPath => temp_input \notin DOMAIN disk
    /\ HandlerReturned /\ Uploaded => temp_input # NoPath
    /\ ~unlinkMissing

\* C3 witness: the 400 returned from inside an OCR branch, input staged.
C3_Witness ==
    /\ pc = "returned"
    /\ temp_input # NoPath
    /\ request.conversion_type = "image-to-text-ocr"
    /\ file_ext = "txt"
    /\ response.status = 400

\* C4: under image-format, image-to-text-ocr and image-to-searchable-pdf-ocr an
\* upload whose extension is no image extension is answered 400 and no
\* converter is called.
C4_NonImageRejected ==
    /\ Uploaded
    /\ pc \notin {"received", "validated"}
    /\ request.conversion_type \in
         {"image-format", "image-to-text-ocr", "image-to-searchable-pdf-ocr"}
    /\ Ext \notin {"jpg", "jpeg", "png", "heic", "webp", "avif"}
    => /\ invoked = <<>>
       /\ HandlerReturned => response.status = 400

\* C5: a converter that raises gives status 500 with a JSON error body, and
\* every request ends in exactly one of: status 200 with the artifact as body,
\* status 400 or 500 with a JSON error body.
C5_OneOutcome ==
    /\ HandlerReturned =>
         /\ raised = "converter" =>
               response.status = 500 /\ response.kind = "json" /\ response.error # ""
         /\ \/ /\ response.status = 200
               /\ response.kind = "file"
               /\ response.file # NoContent
               /\ response.error = ""
            \/ /\ response.status \in {400, 500}
               /\ response.kind = "json"
               /\ response.error # ""
               /\ response.file = NoContent
    /\ pc = "idle" /\ reqNo > 0 =>
         IF response.status = 200 THEN clientBody = response.file
         ELSE clientBody = [kind |-> "error", error |-> response.error]

\* C5 witness: a converter raised and the handler returned 500.
C5_Witness ==
    /\ pc = "returned"
    /\ raised = "converter"
    /\ invoked # <<>>
    /\ response.status = 500

\* C6: an unsupported token, or json-csv / markdown-docx with an extension of
\* neither side, is answered 400 with a non-empty error; no converter is
\* called and no output file is created.
C6_UnsupportedRejected ==
    /\ Uploaded
    /\ pc \notin {"received", "validated"}
    /\ \/ request.conversion_type \notin
            {"json-csv", "markdown-docx", "image-format", "image-to-text-ocr",
             "image-to-searchable-pdf-ocr"}
       \/ request.conversion_type = "json-csv" /\ Ext \notin {"json", "csv"}
       \/ request.conversion_type = "markdown-docx"
          /\ Ext \notin {"md", "markdown", "docx"}
    => /\ invoked = <<>>
       /\ created = {temp_input}
       /\ output_file_path = NoPath
       /\ HandlerReturned =>
            response.status = 400 /\ response.kind = "json" /\ response.error # ""

\* C6 witness: json-csv with a .txt upload, answered.
C6_Witness ==
    /\ pc = "returned"
    /\ request.conversion_type = "json-csv"
    /\ file_ext = "txt"
    /\ response.status = 400

\* C7: a request without a file part, or with an empty filename, is answered
\* 400 with a JSON error body; nothing is staged and no converter is called.
C7_MissingUploadRejected ==
    /\ request # NoRequest /\ ~Uploaded =>
         /\ created = {}
         /\ temp_input = NoPath
         /\ invoked = <<>>
         /\ pc \in {"received", "returned", "idle"}
         /\ pc # "received" =>
              response.status = 400 /\ response.kind = "json" /\ response.error # ""

\* C7 witness: a file part with an empty filename, answered.
C7_Witness ==
    /\ pc = "returned"
    /\ request.hasFile
    /\ request.filename = EmptyName
    /\ response.status = 400

\* The token and the extension select a converter.
Matching ==
    /\ Uploaded
    /\ \/ request.conversion_type = "json-csv" /\ Ext \in {"json", "csv"}
       \/ request.conversion_type = "markdown-docx"
          /\ Ext \in {"md", "markdown", "docx"}
       \/ request.conversion_type = "image-format"
       \/ request.conversion_type \in
            {"image-to-text-ocr", "image-to-searchable-pdf-ocr"}
          /\ Ext \in {"jpg", "jpeg", "png", "heic", "webp", "avif"}

JsonUploaded ==
    /\ request.conversion_type = "json-csv"
    /\ Ext = "json"
    /\ request.content.kind = "bytes"
    /\ request.content.json # JInvalid

\* The input is valid for its converter: a .json upload holds a JSON
\* document; elsewhere nothing raised while reading or converting.
ValidInput ==
    /\ Matching
    /\ raised \notin {"write", "send"}
    /\ IF request.conversion_type = "json-csv" /\ Ext = "json"
       THEN JsonUploaded
       ELSE raised = "none"

Succeeded == response.status = 200 /\ response.kind = "file"

SameRecord(r, s) ==
    /\ \A k \in DOMAIN r : k \in DOMAIN s /\ s[k] = r[k]
    /\ \A k \in DOMAIN s \ DOMAIN r : s[k] = JStr(<<>>)

RoundTripDone ==
    /\ reqNo = 2
    /\ pc = "idle"
    /\ response.status = 200
    /\ clientBody.kind = "json"

\* C9: converting a list of JSON objects to CSV and that CSV back gives a list
\* of as many records, each with the keys and values of the original.
C9_RoundTrip ==
    RoundTripDone =>
        /\ Len(clientBody.doc.items) = Len(sourceDoc.items)
        /\ \A i \in 1..Len(sourceDoc.items) :
              SameRecord(sourceDoc.items[i].o, clientBody.doc.items[i].o)

\* C10: a successful request called exactly one converter, the one the token
\* and the extension select, and its download name and media type are those
\* of that converter's output format.
C10_Dispatch ==
    HandlerReturned /\ response.status = 200 =>
        LET token == request.conversion_type
            target == Lower(IF request.target_format = "absent" THEN "png"
                            ELSE request.target_format)
            Is(conv, ext, mime) ==
                /\ invoked = <<conv>>
                /\ response.download_name = [id |-> unique_id, ext |-> ext]
                /\ response.mimetype = mime
        IN  CASE token = "json-csv" /\ Ext = "json" ->
                    Is("json_to_csv", "csv", Mime("text", "csv"))
              [] token = "json-csv" /\ Ext = "csv" ->
                    Is("csv_to_json", "json", Mime("application", "json"))
              [] token = "markdown-docx" /\ Ext \in {"md", "markdown"} ->
                    Is("markdown_to_docx", "docx", response.mimetype)
              [] token = "markdown-docx" /\ Ext = "docx" ->
                    Is("docx_to_markdown", "md", Mime("text", "markdown"))
              [] token = "image-format" ->
                    Is("convert_image_format", target, Mime("image", target))
              [] token = "image-to-text-ocr" ->
                    Is("image_to_text_ocr", "txt", Mime("text", "plain"))
              [] token = "image-to-searchable-pdf-ocr" ->
                    Is("image_to_searchable_pdf_ocr", "pdf", Mime("application", "pdf"))
              [] OTHER -> FALSE

\* C10 witness: image-format with target_format JPEG, answered 200.
C10_Witness ==
    /\ pc = "returned"
    /\ response.status = 200
    /\ request.conversion_type = "image-format"
    /\ request.target_format = "JPEG"
    /\ response.download_name.ext = "jpeg"

====
